---- MODULE Spec2Model ----
(***************************************************************************)
(* Model of the LLM-ensemble trading engine:                               *)
(*   llm_models/ensemble_decision.py   fusion of three advisories          *)
(*   app/services/trading_executor.py  risk gate, order, trade, position   *)
(*   app/services/ai_engine.py         start / stop / main trading loop    *)
(*   app/services/data_collector.py    stream callbacks, data cache        *)
(*   app/services/notification_service.py  what reaches Telegram           *)
(*   main.py                           lifespan, /start-trading, /stop-... *)
(*   run.py                            the trading-only runner             *)
(*                                                                         *)
(* Number representation (all exact, fixed point):                         *)
(*   confidence        thousandths          0.6  -> 600                    *)
(*   ensemble weight   tenths               0.5  -> 5                      *)
(*   decision score    confidence * weight  0.1  -> 1000                   *)
(*   quantity          thousandths          0.001 -> 1                     *)
(*   balance, price    whole USDT                                          *)
(*   daily PnL         hundredths           0.02 -> 2                      *)
(*   max_position_size tenths               0.1  -> 1                      *)
(* The source computes on binary doubles; the model computes the same      *)
(* expressions exactly, so a double rounding error at an exact tie with a  *)
(* threshold is not represented.                                           *)
(***************************************************************************)
EXTENDS Integers, Sequences, FiniteSets, TLC

\* Python's None, where a dict or a row may stand
None == [none |-> TRUE]

Decisions == {"BUY", "SELL", "HOLD"}
Sentiments == {"POSITIVE", "NEGATIVE", "NEUTRAL"}

\* A call to a collaborator raises (FAILED), or it returns: an advisory
\* generator its parsed answer, a lookup [value |-> v]
FAILED == [failed |-> TRUE]

(***************************************************************************)
(* Configuration (app/config.py)                                           *)
(***************************************************************************)
WeightGpt4 == 5
WeightClaude == 3
WeightPerplexity == 2
MaxDailyLoss == 2
MinBalanceThreshold == 100
MinOrderSize == 1
ExchangeMaxLeverage == 125
DefaultMaxPositionSize == 1

weights == [gpt4 |-> WeightGpt4, claude |-> WeightClaude, perplexity |-> WeightPerplexity]

(***************************************************************************)
(* Python's round(): nearest integer, ties to the even one.  num/den >= 0. *)
(***************************************************************************)
round(num, den) ==
    LET q == num \div den
        r == num % den
    IN  IF 2 * r > den THEN q + 1
        ELSE IF 2 * r < den THEN q
        ELSE IF q % 2 = 0 THEN q ELSE q + 1

Min(a, b) == IF a < b THEN a ELSE b
Max(a, b) == IF a > b THEN a ELSE b

(***************************************************************************)
(* Advisory generators                                                     *)
(***************************************************************************)
\* GPT4Engine._get_default_response
gpt4_get_default_response ==
    [decision |-> "HOLD", confidence |-> 500, position_size |-> 5, risk_level |-> 5]

\* A plausible slip: the fallback answer carries no confidence at all.
gpt4_analyze_market_zero_confidence(outcome) ==
    IF outcome = FAILED
    THEN [gpt4_get_default_response EXCEPT !.confidence = 0]
    ELSE outcome

\* GPT4Engine.analyze_market: the parsed answer, or the default on any exception
gpt4_analyze_market(outcome) ==
    IF outcome = FAILED THEN gpt4_get_default_response ELSE outcome

\* PerplexityEngine._get_default_response
perplexity_get_default_response ==
    [sentiment |-> "NEUTRAL", confidence |-> 500, market_impact |-> "LOW"]

\* PerplexityEngine.analyze_news_sentiment
analyze_news_sentiment(outcome) ==
    IF outcome = FAILED THEN perplexity_get_default_response ELSE outcome

(***************************************************************************)
(* EnsembleDecision                                                        *)
(***************************************************************************)
\* A plausible slip: the sentiment advisory is left out of the scores.
calculate_decision_scores_no_sentiment(gpt4_result, claude_result, perplexity_result) ==
    LET s0 == [d \in Decisions |-> 0]
        s1 == [s0 EXCEPT ![gpt4_result.decision] = @ + gpt4_result.confidence * weights.gpt4]
    IN  [s1 EXCEPT ![claude_result.decision] = @ + claude_result.confidence * weights.claude]

\* EnsembleDecision._calculate_decision_scores (both decisions are keys of scores)
calculate_decision_scores(gpt4_result, claude_result, perplexity_result) ==
    LET s0 == [d \in Decisions |-> 0]
        s1 == [s0 EXCEPT ![gpt4_result.decision] = @ + gpt4_result.confidence * weights.gpt4]
        s2 == [s1 EXCEPT ![claude_result.decision] = @ + claude_result.confidence * weights.claude]
        bucket == IF perplexity_result.sentiment = "POSITIVE" THEN "BUY"
                  ELSE IF perplexity_result.sentiment = "NEGATIVE" THEN "SELL"
                  ELSE "HOLD"
    IN  [s2 EXCEPT ![bucket] = @ + perplexity_result.confidence * weights.perplexity]

\* EnsembleDecision._calculate_weighted_confidence
calculate_weighted_confidence(gpt4_result, claude_result, perplexity_result) ==
    LET total_confidence == gpt4_result.confidence * weights.gpt4
                            + claude_result.confidence * weights.claude
                            + perplexity_result.confidence * weights.perplexity
        total_weight == weights.gpt4 + weights.claude + weights.perplexity
    IN  IF total_weight > 0 THEN total_confidence \div total_weight ELSE 500

\* A plausible slip: the sentiment advisory, which states no size, is left out
\* of the size average.
calculate_weighted_position_size_no_sentiment(gpt4_result, claude_result, perplexity_result) ==
    LET total_size == gpt4_result.position_size * weights.gpt4
                      + claude_result.position_size * weights.claude
        total_weight == weights.gpt4 + weights.claude
    IN  IF total_weight > 0 THEN round(total_size, total_weight) ELSE 5

\* EnsembleDecision._calculate_weighted_position_size
calculate_weighted_position_size(gpt4_result, claude_result, perplexity_result) ==
    LET total_size == gpt4_result.position_size * weights.gpt4
                      + claude_result.position_size * weights.claude
                      + 5 * weights.perplexity
        total_weight == weights.gpt4 + weights.claude + weights.perplexity
    IN  IF total_weight > 0 THEN round(total_size, total_weight) ELSE 5

\* EnsembleDecision._calculate_news_based_risk
\* base_risk * impact_multiplier with the multiplier in tenths (1.5, 1.0, 0.8)
calculate_news_based_risk(perplexity_result) ==
    LET base_risk == CASE perplexity_result.sentiment = "POSITIVE" -> 3
                       [] perplexity_result.sentiment = "NEUTRAL" -> 5
                       [] perplexity_result.sentiment = "NEGATIVE" -> 7
                       [] OTHER -> 5
        impact_multiplier == CASE perplexity_result.market_impact = "HIGH" -> 15
                               [] perplexity_result.market_impact = "MEDIUM" -> 10
                               [] perplexity_result.market_impact = "LOW" -> 8
                               [] OTHER -> 10
    IN  Min(10, Max(1, round(base_risk * impact_multiplier, 10)))

\* EnsembleDecision._calculate_weighted_risk_level
calculate_weighted_risk_level(gpt4_result, claude_result, perplexity_result) ==
    LET total_risk == gpt4_result.risk_level * weights.gpt4
                      + claude_result.risk_level * weights.claude
                      + calculate_news_based_risk(perplexity_result) * weights.perplexity
        total_weight == weights.gpt4 + weights.claude + weights.perplexity
    IN  IF total_weight > 0 THEN round(total_risk, total_weight) ELSE 5

\* max(decision_scores, key=decision_scores.get): the first key, in the order
\* BUY, SELL, HOLD, that carries the largest value
best_of(decision_scores) ==
    IF decision_scores["BUY"] >= decision_scores["SELL"]
       /\ decision_scores["BUY"] >= decision_scores["HOLD"] THEN "BUY"
    ELSE IF decision_scores["SELL"] >= decision_scores["HOLD"] THEN "SELL"
    ELSE "HOLD"

\* sorted(decision_scores.values(), reverse=True)[1]
second_best_of(decision_scores) ==
    LET best == best_of(decision_scores)
        rest == Decisions \ {best}
    IN  CHOOSE v \in {decision_scores[d] : d \in rest} :
            \A d \in rest : decision_scores[d] <= v

\* A plausible slip: the confidence floor is skipped.
determine_final_decision_no_floor(decision_scores, confidence) ==
    IF decision_scores[best_of(decision_scores)] - second_best_of(decision_scores) < 1000
    THEN "HOLD"
    ELSE best_of(decision_scores)

\* A plausible slip: the near-tie margin is skipped.
determine_final_decision_no_margin(decision_scores, confidence) ==
    IF confidence < 600 THEN "HOLD" ELSE best_of(decision_scores)

\* EnsembleDecision._determine_final_decision
determine_final_decision(decision_scores, confidence) ==
    LET best_decision == best_of(decision_scores)
        best_score == decision_scores[best_decision]
        second_best == second_best_of(decision_scores)
    IN  IF confidence < 600 THEN "HOLD"
        ELSE IF best_score - second_best < 1000 THEN "HOLD"
        ELSE best_decision

\* EnsembleDecision._get_default_response
get_default_response ==
    [decision |-> "HOLD", confidence |-> 500, position_size |-> 5, risk_level |-> 5,
     decision_scores |-> [d \in Decisions |-> IF d = "HOLD" THEN 10000 ELSE 0]]

\* EnsembleDecision._combine_analyses: a decision that is no key of the score
\* table raises KeyError, which the method answers with the default response
combine_analyses(gpt4_result, claude_result, perplexity_result) ==
    IF gpt4_result.decision \notin Decisions \/ claude_result.decision \notin Decisions
    THEN get_default_response
    ELSE LET decision_scores ==
                 calculate_decision_scores(gpt4_result, claude_result, perplexity_result)
             confidence ==
                 calculate_weighted_confidence(gpt4_result, claude_result, perplexity_result)
         IN  [decision |-> determine_final_decision(decision_scores, confidence),
              confidence |-> confidence,
              position_size |->
                  calculate_weighted_position_size(gpt4_result, claude_result, perplexity_result),
              risk_level |->
                  calculate_weighted_risk_level(gpt4_result, claude_result, perplexity_result),
              decision_scores |-> decision_scores]

\* EnsembleDecision.make_ensemble_decision on the three generators' outcomes.
\* claude_engine.analyze_market is called as it is: what it returns is fused,
\* and an exception it raises is answered with the default response (line 57).
make_ensemble_decision(gpt4_outcome, claude_outcome, perplexity_outcome) ==
    IF claude_outcome = FAILED
    THEN get_default_response
    ELSE combine_analyses(gpt4_analyze_market(gpt4_outcome),
                          claude_outcome,
                          analyze_news_sentiment(perplexity_outcome))


(***************************************************************************)
(* Bounds of the model                                                     *)
(***************************************************************************)
MaxLoops == 2      \* loop threads that /start-trading may spawn
MaxCycles == 2     \* trading cycles entered, all loops together
MaxMessages == 1   \* market-data stream messages delivered

Loops == 1 .. MaxLoops
Symbols == {"BTCUSDT", "ETHUSDT"}
\* The close price the n-th stream message carries: the market rises
KlinePrice(n) == 90 + 10 * n

\* Settings.max_position_size: 0.1 unless MAX_POSITION_SIZE overrides it
MaxPositionSizeValues == {DefaultMaxPositionSize, 5}

\* A directional advisory as a generator parses it
Advice(d, c, size, risk) ==
    [decision |-> d, confidence |-> c, position_size |-> size, risk_level |-> risk]

\* What the three generators answer inside the loop: <<gpt4, claude, perplexity>>
LoopAdvisories ==
    {<<Advice("BUY", 900, 3, 4), Advice("BUY", 800, 3, 4), FAILED>>,
     <<Advice("BUY", 900, 3, 10), Advice("BUY", 800, 3, 10), FAILED>>,
     <<Advice("SELL", 900, 3, 4), Advice("BUY", 800, 3, 4), FAILED>>,
     <<FAILED, Advice("BUY", 800, 3, 4), FAILED>>,
     <<Advice("HOLD", 100, 5, 10), Advice("HOLD", 100, 5, 10), FAILED>>}

\* client.futures_account_trades(): it raises, or the realizedPnl of the last
\* 24 hours sum to this
DailyPnlLookups == {FAILED, [value |-> -500]}
\* client.futures_account(): it raises, or USDT availableBalance is this
AccountLookups == {FAILED, [value |-> 2000]}
\* client.futures_create_order(): the order is filled, or the exchange raises
OrderOutcomes == {"FILLED", "ERROR"}

(***************************************************************************)
(* State                                                                   *)
(***************************************************************************)
VARIABLES
    fuse_in,            \* a function applied alone (make_ensemble_decision,
                        \* _calculate_quantity): the inputs drawn for it
    fuse_out,           \* a function applied alone: its result
    max_position_size,  \* TRADING_LIMITS['max_position_size'], tenths
    is_running,         \* AIEngine.is_running
    streaming,          \* DataCollector: the websocket streams deliver messages
    data_cache,         \* DataCollector.data_cache: close_price seen per symbol
    pc,                 \* per loop thread: where it stands
    market_data,        \* per loop: the cycle's market_data
    trading_signal,     \* per loop: the cycle's trading_signal
    gate,               \* per loop: what execute_trading_signal's checks saw
    trade_result,       \* per loop: the cycle's trade_result
    existing_position,  \* per loop: _update_position's query result
    exchange_calls,     \* per loop: exchange calls made in this cycle
    notified,           \* per loop: notifications dispatched in this cycle
    delivered,          \* per loop: of these, the ones the Telegram sink received
    database,           \* init_db: "pending", "initialised" or "failed"
    ai_engine,          \* whether the process has created its AIEngine
    trading_signals,    \* rows of table trading_signals
    trades,             \* rows of table trades
    positions,          \* rows of table positions
    cycles,             \* cycles entered
    messages,           \* stream messages delivered
    stop_requested      \* history: stop() came while Running, no start() since

fuse_vars == <<fuse_in, fuse_out>>
cycle_vars == <<market_data, trading_signal, gate, trade_result, existing_position,
                exchange_calls, notified, delivered>>
db_vars == <<trading_signals, trades, positions>>
startup_vars == <<database, ai_engine>>
vars == <<fuse_in, fuse_out, max_position_size, is_running, streaming, data_cache, pc,
          market_data, trading_signal, gate, trade_result, existing_position,
          exchange_calls, notified, delivered, database, ai_engine, trading_signals,
          trades, positions, cycles,
          messages, stop_requested>>

InCycle == {"collect", "analyze", "save_signal", "execute", "trade", "save_trade",
            "position", "commit", "notify", "status"}
Alive == InCycle \cup {"loop", "sleep", "error"}

(***************************************************************************)
(* AIEngine: signal construction                                           *)
(***************************************************************************)
\* AIEngine._generate_trading_signal: the analysis result carries no leverage
\* key, so leverage is analysis_result.get('leverage', 1) = 1
generate_trading_signal(analysis_result, md) ==
    [symbol |-> md.symbol,
     decision |-> analysis_result.decision,
     confidence |-> analysis_result.confidence,
     position_size |-> analysis_result.position_size,
     risk_level |-> analysis_result.risk_level,
     leverage |-> 1,
     price |-> md.close_price]

(***************************************************************************)
(* TradingExecutor: the risk gate                                          *)
(***************************************************************************)
required_fields == {"decision", "confidence", "position_size", "risk_level"}

\* A plausible slip: the confidence floor is left out.
validate_signal_no_confidence(signal) ==
    /\ required_fields \subseteq DOMAIN signal
    /\ signal.decision \in {"BUY", "SELL", "HOLD"}

\* TradingExecutor._validate_signal
validate_signal(signal) ==
    /\ required_fields \subseteq DOMAIN signal
    /\ signal.decision \in {"BUY", "SELL", "HOLD"}
    /\ ~(signal.confidence < 300)

\* TradingExecutor._validate_signal: the line it logs before it returns False
\* (69 missing field, 75 invalid decision, 81 low confidence)
validate_signal_logged(signal) ==
    IF ~(required_fields \subseteq DOMAIN signal) THEN "missing_field"
    ELSE IF signal.decision \notin {"BUY", "SELL", "HOLD"} THEN "invalid_decision"
    ELSE IF signal.confidence < 300 THEN "low_confidence"
    ELSE "nothing"

\* TradingExecutor._get_daily_pnl: the summed realizedPnl, 0.0 when the lookup raises
get_daily_pnl(lookup) == IF lookup = FAILED THEN 0 ELSE lookup.value

\* A plausible slip: the risk-level ceiling is left out.
check_risk_limits_no_risk_level(signal, daily_pnl, mps) ==
    /\ ~(daily_pnl < -MaxDailyLoss)
    /\ ~(signal.position_size > mps)

\* A plausible slip: the position-size limit is left out.
check_risk_limits_no_position_size(signal, daily_pnl, mps) ==
    /\ ~(daily_pnl < -MaxDailyLoss)
    /\ ~(signal.risk_level > 8)

\* TradingExecutor._check_risk_limits; mps is max_position_size in tenths, so
\* max_position_size * 10 is mps
check_risk_limits(signal, daily_pnl, mps) ==
    /\ ~(daily_pnl < -MaxDailyLoss)
    /\ ~(signal.position_size > mps)
    /\ ~(signal.risk_level > 8)

\* A plausible slip: the risk-level ceiling is tested before the size limit.
check_risk_limits_logged_risk_first(signal, daily_pnl, mps) ==
    IF daily_pnl < -MaxDailyLoss THEN "daily_loss"
    ELSE IF signal.risk_level > 8 THEN "risk_level"
    ELSE IF signal.position_size > mps THEN "position_size"
    ELSE "nothing"

\* TradingExecutor._check_risk_limits: the warning it logs before it returns
\* False (99 daily loss, 107 position size, 113 risk level)
check_risk_limits_logged(signal, daily_pnl, mps) ==
    IF daily_pnl < -MaxDailyLoss THEN "daily_loss"
    ELSE IF signal.position_size > mps THEN "position_size"
    ELSE IF signal.risk_level > 8 THEN "risk_level"
    ELSE "nothing"

\* TradingExecutor._get_account_info and the USDT balance scan of _check_balance
\* and _calculate_quantity: {} (no assets, balance 0) when the lookup raises
usdt_balance_of(lookup) == IF lookup = FAILED THEN 0 ELSE lookup.value

\* TradingExecutor._check_balance
check_balance(usdt_balance) == ~(usdt_balance < MinBalanceThreshold)

(***************************************************************************)
(* TradingExecutor: sizing and the order                                   *)
(***************************************************************************)
\* A plausible slip: an order above 1000 units is taken for an error and sized
\* like the other error cases, at the minimum.
calculate_quantity_max_order(signal, md, lookup, mps) ==
    LET usdt_balance == usdt_balance_of(lookup)
        num == usdt_balance * Min(signal.position_size, mps) * 100
        current_price == md.close_price
    IN  IF current_price <= 0 THEN MinOrderSize
        ELSE IF num < MinOrderSize * current_price THEN MinOrderSize
        ELSE IF round(num, current_price) > 1000 * 1000 THEN MinOrderSize
        ELSE round(num, current_price)

\* A plausible slip: the minimum order size is not enforced.
calculate_quantity_no_minimum(signal, md, lookup, mps) ==
    LET usdt_balance == usdt_balance_of(lookup)
        num == usdt_balance * Min(signal.position_size, mps) * 100
        current_price == md.close_price
    IN  IF current_price <= 0 THEN MinOrderSize
        ELSE round(num, current_price)

\* TradingExecutor._calculate_quantity, in thousandths:
\*   available_amount = usdt_balance * min(position_size / 10, max_position_size)
\*   quantity = available_amount / current_price, at least min_order_size,
\*   round(quantity, 3)
calculate_quantity(signal, md, lookup, mps) ==
    LET usdt_balance == usdt_balance_of(lookup)
        num == usdt_balance * Min(signal.position_size, mps) * 100
        current_price == md.close_price
    IN  IF current_price <= 0 THEN MinOrderSize
        ELSE IF num < MinOrderSize * current_price THEN MinOrderSize
        ELSE round(num, current_price)

\* dict.get(key, default)
get(d, key, default) == IF key \in DOMAIN d THEN d[key] ELSE default

failure(error) == [success |-> FALSE, error |-> error]

\* A plausible slip: HOLD is not short-circuited and goes to the exchange.
execute_trade_hold_ordered(signal, md, lookup, outcome, mps) ==
    IF outcome = "ERROR" THEN failure("order")
    ELSE [success |-> TRUE, action |-> signal.decision,
          quantity |-> calculate_quantity(signal, md, lookup, mps),
          price |-> md.close_price,
          leverage |-> Min(signal.leverage, ExchangeMaxLeverage)]

\* TradingExecutor._execute_trade: its return value
execute_trade(signal, md, lookup, outcome, mps) ==
    IF signal.decision = "HOLD"
    THEN [success |-> TRUE, action |-> "HOLD"]
    ELSE IF outcome = "ERROR" THEN failure("order")
    ELSE [success |-> TRUE, action |-> signal.decision,
          quantity |-> calculate_quantity(signal, md, lookup, mps),
          price |-> md.close_price,
          leverage |-> Min(signal.leverage, ExchangeMaxLeverage)]

\* TradingExecutor._save_trade_record: the Trade row built from trade_result
trade_row(result, md) ==
    [symbol |-> md.symbol,
     side |-> get(result, "action", "HOLD"),
     quantity |-> get(result, "quantity", 0),
     price |-> md.close_price,
     executed_price |-> get(result, "price", 0),
     status |-> IF result.success THEN "FILLED" ELSE "REJECTED"]

\* TradingExecutor._update_position: the new Position row.  position_type is
\* stored in an Enum(PositionType) column and read back as PositionType.LONG.
position_row(result, md) ==
    [symbol |-> md.symbol,
     position_type |-> "PositionType.LONG",
     quantity |-> get(result, "quantity", 0),
     entry_price |-> get(result, "price", 0),
     leverage |-> get(result, "leverage", 1),
     is_open |-> TRUE]

\* TradingExecutor._calculate_realized_pnl: position.position_type is the enum
\* member PositionType.LONG, which is not equal to the string 'LONG'
calculate_realized_pnl(position, result) ==
    LET entry_price == position.entry_price
        exit_price == get(result, "price", 0)
        quantity == position.quantity
    IN  IF position.position_type = "LONG"
        THEN (exit_price - entry_price) * quantity
        ELSE (entry_price - exit_price) * quantity

\* TradingExecutor._update_position, lines 327-329: the row it closes
closed_row(position, result) ==
    [symbol |-> position.symbol,
     position_type |-> position.position_type,
     quantity |-> position.quantity,
     entry_price |-> position.entry_price,
     leverage |-> position.leverage,
     is_open |-> FALSE,
     realized_pnl |-> calculate_realized_pnl(position, result)]

\* db.query(Position).filter(symbol, is_open).first(): row id, 0 for no row
query_open_position(symbol) ==
    LET open == {i \in 1 .. Len(positions) :
                    positions[i].symbol = symbol /\ positions[i].is_open}
    IN  IF open = {} THEN 0 ELSE CHOOSE i \in open : \A j \in open : i <= j

(***************************************************************************)
(* Initial state                                                           *)
(***************************************************************************)
AtRest ==
    /\ fuse_in = None
    /\ fuse_out = None
    /\ max_position_size \in MaxPositionSizeValues
    /\ is_running = FALSE
    /\ streaming = FALSE
    /\ data_cache = [s \in Symbols |-> None]
    /\ pc = [t \in Loops |-> "idle"]
    /\ market_data = [t \in Loops |-> None]
    /\ trading_signal = [t \in Loops |-> None]
    /\ gate = [t \in Loops |-> None]
    /\ trade_result = [t \in Loops |-> None]
    /\ existing_position = [t \in Loops |-> 0]
    /\ exchange_calls = [t \in Loops |-> <<>>]
    /\ notified = [t \in Loops |-> {}]
    /\ delivered = [t \in Loops |-> {}]
    /\ trading_signals = 0
    /\ trades = <<>>
    /\ positions = <<>>
    /\ cycles = 0
    /\ messages = 0
    /\ stop_requested = FALSE

\* The process has started: init_db() returned and the AIEngine exists
Init ==
    /\ AtRest
    /\ database = "initialised"
    /\ ai_engine = TRUE

\* The process is about to start
InitStartup ==
    /\ AtRest
    /\ database = "pending"
    /\ ai_engine = FALSE

(***************************************************************************)
(* main.py lifespan and run.py run_ai_trading: the start of the process    *)
(***************************************************************************)
\* run.py run_ai_trading up to ai_engine = AIEngine(): an exception of
\* init_db() is logged and raised again, which ends the process
RunAiTradingInitDb ==
    /\ database = "pending"
    /\ \E ok \in BOOLEAN :
          /\ database' = IF ok THEN "initialised" ELSE "failed"
          /\ ai_engine' = ok
    /\ UNCHANGED <<fuse_vars, max_position_size, is_running, streaming, data_cache, pc,
                   cycle_vars, db_vars, cycles, messages, stop_requested>>

\* main.py lifespan up to its yield: an exception of init_db() is logged and
\* dropped, and the AIEngine is created either way
Lifespan ==
    /\ database = "pending"
    /\ \E ok \in BOOLEAN : database' = IF ok THEN "initialised" ELSE "failed"
    /\ ai_engine' = TRUE
    /\ UNCHANGED <<fuse_vars, max_position_size, is_running, streaming, data_cache, pc,
                   cycle_vars, db_vars, cycles, messages, stop_requested>>

(***************************************************************************)
(* main.py, AIEngine: starting and stopping                                *)
(***************************************************************************)
Running == is_running /\ \E t \in Loops : pc[t] \in Alive

\* main.py start_trading: a new daemon thread runs ai_engine.start_ai_trading();
\* nothing looks at is_running or at threads started before
StartTrading ==
    /\ ai_engine
    /\ \E t \in Loops :
          /\ pc[t] = "idle"
          /\ \A u \in Loops : u < t => pc[u] # "idle"
          /\ pc' = [pc EXCEPT ![t] = "begin"]
    /\ stop_requested' = FALSE
    /\ UNCHANGED <<fuse_vars, startup_vars, max_position_size, is_running, streaming,
                   data_cache, cycle_vars, db_vars, cycles, messages>>

\* AIEngine.start_ai_trading up to the call of _main_trading_loop
StartAiTrading(t) ==
    /\ pc[t] = "begin"
    /\ is_running' = TRUE
    /\ streaming' = TRUE
    /\ pc' = [pc EXCEPT ![t] = "loop"]
    /\ UNCHANGED <<fuse_vars, startup_vars, max_position_size, data_cache, cycle_vars,
                   db_vars, cycles, messages, stop_requested>>

\* A plausible slip: stop flips the running flag instead of clearing it.
StopTrading_toggle ==
    /\ ai_engine
    /\ is_running' = ~is_running
    /\ streaming' = FALSE
    /\ stop_requested' = (Running \/ stop_requested)
    /\ UNCHANGED <<fuse_vars, startup_vars, max_position_size, data_cache, pc,
                   cycle_vars, db_vars, cycles, messages>>

\* main.py stop_trading -> AIEngine.stop_ai_trading; DataCollector.stop closes
\* the stream connections
StopTrading ==
    /\ ai_engine
    /\ is_running' = FALSE
    /\ streaming' = FALSE
    /\ stop_requested' = (Running \/ stop_requested)
    /\ UNCHANGED <<fuse_vars, startup_vars, max_position_size, data_cache, pc,
                   cycle_vars, db_vars, cycles, messages>>

\* run.py run_ai_trading (--mode trading): the process runs one AIEngine and
\* awaits its start_ai_trading(); nothing in that process calls stop
RunAiTrading ==
    /\ ai_engine
    /\ \A t \in Loops : pc[t] = "idle"
    /\ pc' = [pc EXCEPT ![1] = "begin"]
    /\ UNCHANGED <<fuse_vars, startup_vars, max_position_size, is_running, streaming,
                   data_cache, cycle_vars, db_vars, cycles, messages, stop_requested>>

(***************************************************************************)
(* DataCollector: stream callbacks                                         *)
(***************************************************************************)
\* DataCollector._process_kline_message -> _update_cache
ProcessKlineMessage ==
    /\ streaming
    /\ messages < MaxMessages
    /\ \E s \in Symbols :
          data_cache' = [data_cache EXCEPT ![s] = [close_price |-> KlinePrice(messages + 1)]]
    /\ messages' = messages + 1
    /\ UNCHANGED <<fuse_vars, startup_vars, max_position_size, is_running, streaming,
                   pc, cycle_vars, db_vars, cycles, stop_requested>>

\* DataCollector._process_ticker_message: the cached dict has no close_price key
ProcessTickerMessage ==
    /\ streaming
    /\ messages < MaxMessages
    /\ \E s \in Symbols :
          data_cache' = [data_cache EXCEPT ![s] = [price |-> KlinePrice(messages + 1)]]
    /\ messages' = messages + 1
    /\ UNCHANGED <<fuse_vars, startup_vars, max_position_size, is_running, streaming,
                   pc, cycle_vars, db_vars, cycles, stop_requested>>

(***************************************************************************)
(* AIEngine._main_trading_loop, one action per step of a cycle             *)
(***************************************************************************)
\* while self.is_running:
LoopCheck(t) ==
    /\ pc[t] = "loop"
    /\ IF is_running
       THEN /\ cycles < MaxCycles
            /\ cycles' = cycles + 1
            /\ pc' = [pc EXCEPT ![t] = "collect"]
       ELSE /\ cycles' = cycles
            /\ pc' = [pc EXCEPT ![t] = "done"]
    /\ UNCHANGED <<fuse_vars, startup_vars, max_position_size, is_running, streaming,
                   data_cache, cycle_vars, db_vars, messages, stop_requested>>

\* AIEngine._collect_market_data: BTCUSDT when cached, else the first cached symbol
collect_market_data ==
    LET cached == {s \in Symbols : data_cache[s] # None}
        target_symbol == IF "BTCUSDT" \in cached THEN "BTCUSDT"
                         ELSE CHOOSE s \in cached : TRUE
        entry == data_cache[target_symbol]
    IN  IF cached = {} THEN None
        ELSE [symbol |-> target_symbol,
              close_price |-> IF "close_price" \in DOMAIN entry
                              THEN entry.close_price ELSE 0]

\* A plausible slip: the `continue` after the empty snapshot is missing, so the
\* cycle goes on to the analysis.
CollectMarketData_no_skip(t) ==
    /\ pc[t] = "collect"
    /\ market_data' = [market_data EXCEPT ![t] = collect_market_data]
    /\ pc' = [pc EXCEPT ![t] = "analyze"]
    /\ UNCHANGED <<fuse_vars, startup_vars, max_position_size, is_running, streaming,
                   data_cache, trading_signal, gate, trade_result, existing_position,
                   exchange_calls, notified, delivered, db_vars, cycles, messages,
                   stop_requested>>

\* market_data = self._collect_market_data(); no data: sleep and continue
CollectMarketData(t) ==
    /\ pc[t] = "collect"
    /\ market_data' = [market_data EXCEPT ![t] = collect_market_data]
    /\ pc' = [pc EXCEPT ![t] = IF collect_market_data = None THEN "sleep" ELSE "analyze"]
    /\ UNCHANGED <<fuse_vars, startup_vars, max_position_size, is_running, streaming,
                   data_cache, trading_signal, gate, trade_result, existing_position,
                   exchange_calls, notified, delivered, db_vars, cycles, messages,
                   stop_requested>>

\* _perform_ai_analysis and _generate_trading_signal
PerformAiAnalysis(t) ==
    /\ pc[t] = "analyze"
    /\ \E a \in LoopAdvisories :
          trading_signal' = [trading_signal EXCEPT ![t] =
              generate_trading_signal(make_ensemble_decision(a[1], a[2], a[3]),
                                      market_data[t])]
    /\ pc' = [pc EXCEPT ![t] = "save_signal"]
    /\ UNCHANGED <<fuse_vars, startup_vars, max_position_size, is_running, streaming,
                   data_cache, market_data, gate, trade_result, existing_position,
                   exchange_calls, notified, delivered, db_vars, cycles, messages,
                   stop_requested>>

\* AIEngine._save_trading_signal: a database error is logged and swallowed
SaveTradingSignal(t) ==
    /\ pc[t] = "save_signal"
    /\ \E db_ok \in BOOLEAN :
          trading_signals' = IF db_ok THEN trading_signals + 1 ELSE trading_signals
    /\ pc' = [pc EXCEPT ![t] = "execute"]
    /\ UNCHANGED <<fuse_vars, startup_vars, max_position_size, is_running, streaming,
                   data_cache, cycle_vars, trades, positions, cycles, messages,
                   stop_requested>>

\* A plausible slip: _get_account_info does not catch, so a failed account
\* lookup leaves execute_trading_signal as an exception.
ExecuteTradingSignal_lookup_raises(t) ==
    /\ pc[t] = "execute"
    /\ \E pnl_lookup \in DailyPnlLookups, account_lookup \in AccountLookups :
          LET signal == trading_signal[t]
              valid == validate_signal(signal)
              daily_pnl == get_daily_pnl(pnl_lookup)
              within == check_risk_limits(signal, daily_pnl, max_position_size)
              usdt_balance == usdt_balance_of(account_lookup)
              funded == check_balance(usdt_balance)
              verdict == IF ~valid THEN "validation"
                         ELSE IF ~within THEN "risk"
                         ELSE IF ~funded THEN "balance"
                         ELSE "accepted"
          IN  IF valid /\ within /\ account_lookup = FAILED
              THEN /\ gate' = gate
                   /\ trade_result' = trade_result
                   /\ pc' = [pc EXCEPT ![t] = "error"]
              ELSE /\ gate' = [gate EXCEPT ![t] =
                          IF ~valid
                          THEN [verdict |-> verdict, logged |-> validate_signal_logged(signal)]
                          ELSE IF ~within
                          THEN [verdict |-> verdict, daily_pnl |-> daily_pnl,
                                logged |-> check_risk_limits_logged(signal, daily_pnl,
                                                                    max_position_size)]
                          ELSE [verdict |-> verdict, daily_pnl |-> daily_pnl,
                                usdt_balance |-> usdt_balance]]
                   /\ IF verdict = "accepted"
                      THEN /\ trade_result' = trade_result
                           /\ pc' = [pc EXCEPT ![t] = "trade"]
                      ELSE /\ trade_result' = [trade_result EXCEPT ![t] = failure(verdict)]
                           /\ pc' = [pc EXCEPT ![t] = "notify"]
    /\ UNCHANGED <<fuse_vars, startup_vars, max_position_size, is_running, streaming,
                   data_cache, market_data, trading_signal, existing_position,
                   exchange_calls, notified, delivered, db_vars, cycles, messages,
                   stop_requested>>

\* TradingExecutor.execute_trading_signal, lines 33-45: validation, risk limits,
\* balance; the first failing check returns and the later lookups are not made
ExecuteTradingSignal(t) ==
    /\ pc[t] = "execute"
    /\ \E pnl_lookup \in DailyPnlLookups, account_lookup \in AccountLookups :
          LET signal == trading_signal[t]
              valid == validate_signal(signal)
              daily_pnl == get_daily_pnl(pnl_lookup)
              within == check_risk_limits(signal, daily_pnl, max_position_size)
              usdt_balance == usdt_balance_of(account_lookup)
              funded == check_balance(usdt_balance)
              verdict == IF ~valid THEN "validation"
                         ELSE IF ~within THEN "risk"
                         ELSE IF ~funded THEN "balance"
                         ELSE "accepted"
          IN  /\ gate' = [gate EXCEPT ![t] =
                     IF ~valid
                     THEN [verdict |-> verdict, logged |-> validate_signal_logged(signal)]
                     ELSE IF ~within
                     THEN [verdict |-> verdict, daily_pnl |-> daily_pnl,
                           logged |-> check_risk_limits_logged(signal, daily_pnl,
                                                               max_position_size)]
                     ELSE [verdict |-> verdict, daily_pnl |-> daily_pnl,
                           usdt_balance |-> usdt_balance]]
              /\ IF verdict = "accepted"
                 THEN /\ trade_result' = trade_result
                      /\ pc' = [pc EXCEPT ![t] = "trade"]
                 ELSE /\ trade_result' = [trade_result EXCEPT ![t] = failure(verdict)]
                      /\ pc' = [pc EXCEPT ![t] = "notify"]
    /\ UNCHANGED <<fuse_vars, startup_vars, max_position_size, is_running, streaming,
                   data_cache, market_data, trading_signal, existing_position,
                   exchange_calls, notified, delivered, db_vars, cycles, messages,
                   stop_requested>>

\* A plausible slip: the signal's leverage is handed on without the cap.
exchange_calls_of_uncapped(signal, result) ==
    IF result = [success |-> TRUE, action |-> "HOLD"]
    THEN <<>>
    ELSE <<[call |-> "futures_change_leverage", leverage |-> signal.leverage],
           [call |-> "futures_create_order"]>>

\* TradingExecutor._set_leverage and the order of _execute_trade, as the
\* client is called: futures_change_leverage(symbol, leverage), whose
\* exception _set_leverage logs and swallows, then futures_create_order.
\* Nothing was called when _execute_trade returned at its HOLD branch.
exchange_calls_of(signal, result) ==
    IF result = [success |-> TRUE, action |-> "HOLD"]
    THEN <<>>
    ELSE <<[call |-> "futures_change_leverage",
            leverage |-> Min(signal.leverage, ExchangeMaxLeverage)],
           [call |-> "futures_create_order"]>>

\* The names of the exchange calls a loop made in its cycle, in order
called(t) == [i \in DOMAIN exchange_calls[t] |-> exchange_calls[t][i].call]

\* TradingExecutor._execute_trade
ExecuteTrade(t) ==
    /\ pc[t] = "trade"
    /\ \E account_lookup \in AccountLookups, outcome \in OrderOutcomes :
          LET result == execute_trade(trading_signal[t], market_data[t], account_lookup,
                                      outcome, max_position_size)
          IN  /\ trade_result' = [trade_result EXCEPT ![t] = result]
              /\ exchange_calls' = [exchange_calls EXCEPT ![t] =
                     exchange_calls_of(trading_signal[t], result)]
    /\ pc' = [pc EXCEPT ![t] = "save_trade"]
    /\ UNCHANGED <<fuse_vars, startup_vars, max_position_size, is_running, streaming,
                   data_cache, market_data, trading_signal, gate, existing_position,
                   notified, delivered, db_vars, cycles, messages, stop_requested>>

\* TradingExecutor._save_trade_record: a database error is logged and swallowed
SaveTradeRecord(t) ==
    /\ pc[t] = "save_trade"
    /\ \E db_ok \in BOOLEAN :
          trades' = IF db_ok THEN Append(trades, trade_row(trade_result[t], market_data[t]))
                    ELSE trades
    /\ pc' = [pc EXCEPT ![t] = "position"]
    /\ UNCHANGED <<fuse_vars, startup_vars, max_position_size, is_running, streaming,
                   data_cache, cycle_vars, trading_signals, positions, cycles, messages,
                   stop_requested>>

\* TradingExecutor._update_position, lines 313-322: the early return and the query
UpdatePositionQuery(t) ==
    /\ pc[t] = "position"
    /\ IF ~trade_result[t].success \/ get(trade_result[t], "action", "None") = "HOLD"
       THEN /\ existing_position' = existing_position
            /\ pc' = [pc EXCEPT ![t] = "notify"]
       ELSE /\ existing_position' = [existing_position EXCEPT ![t] =
                   query_open_position(market_data[t].symbol)]
            /\ pc' = [pc EXCEPT ![t] = "commit"]
    /\ UNCHANGED <<fuse_vars, startup_vars, max_position_size, is_running, streaming,
                   data_cache, market_data, trading_signal, gate, trade_result,
                   exchange_calls, notified, delivered, db_vars, cycles, messages,
                   stop_requested>>

\* TradingExecutor._update_position, lines 324-346: what db.commit() writes
update_position(existing, result, md) ==
    IF existing # 0
    THEN IF get(result, "action", "None") = "SELL"
         THEN [positions EXCEPT ![existing] = closed_row(@, result)]
         ELSE positions
    ELSE IF get(result, "action", "None") = "BUY"
         THEN Append(positions, position_row(result, md))
         ELSE positions

\* TradingExecutor._update_position, lines 324-346: a database error is swallowed
UpdatePositionCommit(t) ==
    /\ pc[t] = "commit"
    /\ \E db_ok \in BOOLEAN :
          positions' = IF db_ok
                       THEN update_position(existing_position[t], trade_result[t],
                                            market_data[t])
                       ELSE positions
    /\ pc' = [pc EXCEPT ![t] = "notify"]
    /\ UNCHANGED <<fuse_vars, startup_vars, max_position_size, is_running, streaming,
                   data_cache, cycle_vars, trading_signals, trades, cycles, messages,
                   stop_requested>>

\* NOTIFICATION_CONFIG['telegram']['notification_types']
enabled_types ==
    {"trade_execution", "profit_loss", "system_status", "risk_alert", "daily_report"}

\* NotificationService._is_notification_enabled: a plain membership test of
\* the caller's type string, with no case folding.
is_notification_enabled(notification_type) == notification_type \in enabled_types

\* NotificationService.send_notification: a type that is not enabled returns
\* a failure before anything is sent; otherwise the result is Telegram's.
send_notification(notification_type, telegram_ok) ==
    IF ~is_notification_enabled(notification_type)
    THEN [success |-> FALSE]
    ELSE [success |-> telegram_ok]

\* The notifications of `calls` (named as in `notified`) that reach Telegram
\* when each is sent under `notification_type`.
deliveries(calls, notification_type, telegram_ok) ==
    {c \in calls : send_notification(notification_type[c], telegram_ok).success}

\* The type string each sender hands to send_notification:
\* send_trade_notification, send_portfolio_status and
\* send_system_status_notification (used for both HEALTHY and ERROR).
sender_type ==
    [trade |-> "TRADE_EXECUTION", portfolio |-> "SYSTEM_STATUS",
     status |-> "SYSTEM_STATUS", error |-> "SYSTEM_STATUS"]

\* AIEngine._send_trading_notifications
SendTradingNotifications(t) ==
    /\ pc[t] = "notify"
    /\ notified' = [notified EXCEPT ![t] =
           IF trade_result[t].success THEN @ \cup {"trade", "portfolio"} ELSE @]
    /\ \E telegram_ok \in BOOLEAN :
           delivered' = [delivered EXCEPT ![t] =
               IF trade_result[t].success
               THEN @ \cup deliveries({"trade", "portfolio"}, sender_type, telegram_ok)
               ELSE @]
    /\ pc' = [pc EXCEPT ![t] = "status"]
    /\ UNCHANGED <<fuse_vars, startup_vars, max_position_size, is_running, streaming,
                   data_cache, market_data, trading_signal, gate, trade_result,
                   existing_position, exchange_calls, db_vars, cycles, messages,
                   stop_requested>>

\* AIEngine._update_system_status
UpdateSystemStatus(t) ==
    /\ pc[t] = "status"
    /\ notified' = [notified EXCEPT ![t] = @ \cup {"status"}]
    /\ \E telegram_ok \in BOOLEAN :
           delivered' = [delivered EXCEPT ![t] =
               @ \cup deliveries({"status"}, sender_type, telegram_ok)]
    /\ pc' = [pc EXCEPT ![t] = "sleep"]
    /\ UNCHANGED <<fuse_vars, startup_vars, max_position_size, is_running, streaming,
                   data_cache, market_data, trading_signal, gate, trade_result,
                   existing_position, exchange_calls, db_vars, cycles, messages,
                   stop_requested>>

\* A plausible slip: the try/except encloses the while loop instead of its
\* body, so an exception that leaves a step ends the loop thread.
CycleRaise_outside_loop(t) ==
    /\ pc[t] \in InCycle
    /\ pc' = [pc EXCEPT ![t] = "done"]
    /\ market_data' = [market_data EXCEPT ![t] = None]
    /\ trading_signal' = [trading_signal EXCEPT ![t] = None]
    /\ gate' = [gate EXCEPT ![t] = None]
    /\ trade_result' = [trade_result EXCEPT ![t] = None]
    /\ existing_position' = [existing_position EXCEPT ![t] = 0]
    /\ exchange_calls' = [exchange_calls EXCEPT ![t] = <<>>]
    /\ UNCHANGED <<fuse_vars, startup_vars, max_position_size, is_running, streaming,
                   data_cache, notified, delivered, db_vars, cycles, messages,
                   stop_requested>>

\* except Exception at the cycle boundary, lines 95-96: an exception that left
\* a step of the cycle; the cycle's locals are dead
CycleRaise(t) ==
    /\ pc[t] \in InCycle
    /\ pc' = [pc EXCEPT ![t] = "error"]
    /\ market_data' = [market_data EXCEPT ![t] = None]
    /\ trading_signal' = [trading_signal EXCEPT ![t] = None]
    /\ gate' = [gate EXCEPT ![t] = None]
    /\ trade_result' = [trade_result EXCEPT ![t] = None]
    /\ existing_position' = [existing_position EXCEPT ![t] = 0]
    /\ exchange_calls' = [exchange_calls EXCEPT ![t] = <<>>]
    /\ UNCHANGED <<fuse_vars, startup_vars, max_position_size, is_running, streaming,
                   data_cache, notified, delivered, db_vars, cycles, messages,
                   stop_requested>>

\* AIEngine._send_error_notification, line 97
SendErrorNotification(t) ==
    /\ pc[t] = "error"
    /\ notified' = [notified EXCEPT ![t] = @ \cup {"error"}]
    /\ \E telegram_ok \in BOOLEAN :
           delivered' = [delivered EXCEPT ![t] =
               @ \cup deliveries({"error"}, sender_type, telegram_ok)]
    /\ pc' = [pc EXCEPT ![t] = "sleep"]
    /\ UNCHANGED <<fuse_vars, startup_vars, max_position_size, is_running, streaming,
                   data_cache, market_data, trading_signal, gate, trade_result,
                   existing_position, exchange_calls, db_vars, cycles, messages,
                   stop_requested>>

\* await asyncio.sleep(self.analysis_interval); the cycle's locals are dead
Sleep(t) ==
    /\ pc[t] = "sleep"
    /\ pc' = [pc EXCEPT ![t] = "loop"]
    /\ market_data' = [market_data EXCEPT ![t] = None]
    /\ trading_signal' = [trading_signal EXCEPT ![t] = None]
    /\ gate' = [gate EXCEPT ![t] = None]
    /\ trade_result' = [trade_result EXCEPT ![t] = None]
    /\ existing_position' = [existing_position EXCEPT ![t] = 0]
    /\ exchange_calls' = [exchange_calls EXCEPT ![t] = <<>>]
    /\ notified' = [notified EXCEPT ![t] = {}]
    /\ delivered' = [delivered EXCEPT ![t] = {}]
    /\ UNCHANGED <<fuse_vars, startup_vars, max_position_size, is_running, streaming,
                   data_cache, db_vars, cycles, messages, stop_requested>>

\* One step of loop thread t
LoopStep(t) ==
    \/ StartAiTrading(t)
    \/ LoopCheck(t)
    \/ CollectMarketData(t)
    \/ PerformAiAnalysis(t)
    \/ SaveTradingSignal(t)
    \/ ExecuteTradingSignal(t)
    \/ ExecuteTrade(t)
    \/ SaveTradeRecord(t)
    \/ UpdatePositionQuery(t)
    \/ UpdatePositionCommit(t)
    \/ SendTradingNotifications(t)
    \/ UpdateSystemStatus(t)
    \/ SendErrorNotification(t)
    \/ Sleep(t)

Next ==
    \/ StartTrading
    \/ StopTrading
    \/ ProcessKlineMessage
    \/ ProcessTickerMessage
    \/ \E t \in Loops : LoopStep(t)
    \/ \E t \in Loops : CycleRaise(t)

(***************************************************************************)
(* The fusion alone: make_ensemble_decision applied to drawn advisories.   *)
(* Confidences are whole hundredths, so the weighted average is exact.     *)
(***************************************************************************)
FuseGpt4Outcomes ==
    {FAILED, Advice("WAIT", 800, 7, 4)}
    \cup {Advice(d, c, 7, 4) : d \in Decisions, c \in {200, 600, 800, 1000}}
FuseClaudeOutcomes ==
    {FAILED, Advice("HOLD", 500, 5, 5)}
    \cup {Advice(d, c, 6, 5) : d \in Decisions, c \in {200, 700, 1000}}
FusePerplexityOutcomes ==
    {FAILED}
    \cup {[sentiment |-> s, confidence |-> c, market_impact |-> "MEDIUM"] :
              s \in Sentiments, c \in {0, 600, 1000}}

InitFuse == Init /\ max_position_size = DefaultMaxPositionSize

\* The three generators have answered (ensemble_decision.py, lines 36-49)
DrawAdvisories ==
    /\ fuse_in = None
    /\ \E g \in FuseGpt4Outcomes, c \in FuseClaudeOutcomes, p \in FusePerplexityOutcomes :
          fuse_in' = [gpt4 |-> g, claude |-> c, perplexity |-> p]
    /\ fuse_out' = None
    /\ UNCHANGED <<startup_vars, max_position_size, is_running, streaming, data_cache,
                   pc, cycle_vars, db_vars, cycles, messages, stop_requested>>

\* EnsembleDecision.make_ensemble_decision returns
MakeEnsembleDecision ==
    /\ fuse_in # None
    /\ fuse_out = None
    /\ fuse_out' = make_ensemble_decision(fuse_in.gpt4, fuse_in.claude, fuse_in.perplexity)
    /\ UNCHANGED <<fuse_in, startup_vars, max_position_size, is_running, streaming,
                   data_cache, pc, cycle_vars, db_vars, cycles, messages,
                   stop_requested>>

NextFuse ==
    \/ DrawAdvisories
    \/ MakeEnsembleDecision

SpecFuse == InitFuse /\ [][NextFuse]_vars

(***************************************************************************)
(* The executor alone: execute_trading_signal called with drawn signals    *)
(* and market data, one call after the other, on loop thread 1's locals.   *)
(***************************************************************************)
\* Signals as _generate_trading_signal builds them, over the whole range of
\* the four checked fields, and two dicts that lack required fields
GateAnalyses ==
    {Advice(d, c, size, risk) :
        d \in Decisions \cup {"WAIT"}, c \in {250, 300, 900}, size \in {1, 7},
        risk \in {4, 9}}
GateMarketData ==
    {[symbol |-> "BTCUSDT", close_price |-> 100],
     [symbol |-> "BTCUSDT", close_price |-> 110],
     [symbol |-> "ETHUSDT", close_price |-> 0]}
GateLeverages == {1, 200}
GateSignals(md) ==
    {[generate_trading_signal(a, md) EXCEPT !.leverage = l] :
        a \in GateAnalyses, l \in GateLeverages}
    \cup {[symbol |-> md.symbol, decision |-> "BUY", confidence |-> 250],
          [symbol |-> md.symbol, confidence |-> 900, position_size |-> 1,
           risk_level |-> 4]}

\* execute_trading_signal(signal, market_data) is entered (line 31); the call
\* before it, if any, has returned
CallExecuteTradingSignal ==
    /\ pc[1] \in {"idle", "notify"}
    /\ cycles < MaxCycles
    /\ cycles' = cycles + 1
    /\ \E md \in GateMarketData : \E signal \in GateSignals(md) :
          /\ market_data' = [market_data EXCEPT ![1] = md]
          /\ trading_signal' = [trading_signal EXCEPT ![1] = signal]
    /\ gate' = [gate EXCEPT ![1] = None]
    /\ trade_result' = [trade_result EXCEPT ![1] = None]
    /\ existing_position' = [existing_position EXCEPT ![1] = 0]
    /\ exchange_calls' = [exchange_calls EXCEPT ![1] = <<>>]
    /\ pc' = [pc EXCEPT ![1] = "execute"]
    /\ UNCHANGED <<fuse_vars, startup_vars, max_position_size, is_running, streaming,
                   data_cache, notified, delivered, db_vars, messages, stop_requested>>

\* One step of the call in progress
GateStep ==
    \/ ExecuteTradingSignal(1)
    \/ ExecuteTrade(1)
    \/ SaveTradeRecord(1)
    \/ UpdatePositionQuery(1)
    \/ UpdatePositionCommit(1)

NextGate ==
    \/ CallExecuteTradingSignal
    \/ GateStep

SpecGate == Init /\ [][NextGate]_vars

\* The method is synchronous code and each collaborator call returns or
\* raises: a call that was entered keeps taking its next step.
FairSpecGate == SpecGate /\ WF_vars(GateStep)

(***************************************************************************)
(* The sizing alone: _calculate_quantity applied twice to the same signal, *)
(* price and limit, under two answers of the account lookup.               *)
(***************************************************************************)
SizingSizes == 0 .. 10
SizingPrices == {-1, 0, 1, 3, 100, 110, 30000}
\* client.futures_account(): it raises, or USDT availableBalance is this
SizingLookups ==
    {FAILED} \cup {[value |-> b] : b \in {0, 50, 99, 100, 101, 2000, 2001, 20000}}

\* _calculate_quantity(signal, market_data) is entered twice (line 214)
DrawSizing ==
    /\ fuse_in = None
    /\ \E size \in SizingSizes, price \in SizingPrices, low \in SizingLookups,
          high \in SizingLookups :
          /\ usdt_balance_of(low) <= usdt_balance_of(high)
          /\ fuse_in' = [signal |-> [decision |-> "BUY", position_size |-> size],
                         market_data |-> [symbol |-> "BTCUSDT", close_price |-> price],
                         low |-> low, high |-> high]
    /\ fuse_out' = None
    /\ UNCHANGED <<startup_vars, max_position_size, is_running, streaming, data_cache,
                   pc, cycle_vars, db_vars, cycles, messages, stop_requested>>

\* Both calls of _calculate_quantity return
CalculateQuantity ==
    /\ fuse_in # None
    /\ fuse_out = None
    /\ fuse_out' = [low |-> calculate_quantity(fuse_in.signal, fuse_in.market_data,
                                               fuse_in.low, max_position_size),
                    high |-> calculate_quantity(fuse_in.signal, fuse_in.market_data,
                                                fuse_in.high, max_position_size)]
    /\ UNCHANGED <<fuse_in, startup_vars, max_position_size, is_running, streaming,
                   data_cache, pc, cycle_vars, db_vars, cycles, messages,
                   stop_requested>>

NextSize ==
    \/ DrawSizing
    \/ CalculateQuantity

SpecSize == Init /\ [][NextSize]_vars

\* The web application (main.py)
Spec == Init /\ [][Next]_vars

NextRunner ==
    \/ RunAiTrading
    \/ ProcessKlineMessage
    \/ ProcessTickerMessage
    \/ \E t \in Loops : LoopStep(t)
    \/ \E t \in Loops : CycleRaise(t)

\* The trading-only runner (run.py --mode trading)
SpecRunner == Init /\ [][NextRunner]_vars

\* Every spawned thread is scheduled, and every call of a cycle returns: each
\* loop thread keeps taking its next step.  Exceptions are not owed.
FairSpecRunner == SpecRunner /\ \A t \in Loops : WF_vars(LoopStep(t))

\* The web application from the start of its process: lifespan, then the
\* endpoints and the stream callbacks; of the loop threads the first one
\* started is followed
NextLifespan ==
    \/ Lifespan
    \/ StartTrading
    \/ StopTrading
    \/ ProcessKlineMessage
    \/ ProcessTickerMessage
    \/ LoopStep(1)
    \/ CycleRaise(1)

SpecLifespan == InitStartup /\ [][NextLifespan]_vars

(***************************************************************************)
(* The trading-only runner with its two directional generators answering   *)
(* every position size of their scale.                                     *)
(***************************************************************************)
AdvisorySizes == 1 .. 10
SizedAdvisories ==
    {<<Advice(d, c, gpt4_size, 4), Advice("BUY", c, claude_size, 4), FAILED>> :
        d \in Decisions, c \in {100, 900}, gpt4_size \in AdvisorySizes,
        claude_size \in AdvisorySizes}
    \cup {<<FAILED, FAILED, FAILED>>}

\* _perform_ai_analysis and _generate_trading_signal
PerformAiAnalysisSized(t) ==
    /\ pc[t] = "analyze"
    /\ \E a \in SizedAdvisories :
          trading_signal' = [trading_signal EXCEPT ![t] =
              generate_trading_signal(make_ensemble_decision(a[1], a[2], a[3]),
                                      market_data[t])]
    /\ pc' = [pc EXCEPT ![t] = "save_signal"]
    /\ UNCHANGED <<fuse_vars, startup_vars, max_position_size, is_running, streaming,
                   data_cache, market_data, gate, trade_result, existing_position,
                   exchange_calls, notified, delivered, db_vars, cycles, messages,
                   stop_requested>>

\* One step of loop thread t
LoopStepSized(t) ==
    \/ StartAiTrading(t)
    \/ LoopCheck(t)
    \/ CollectMarketData(t)
    \/ PerformAiAnalysisSized(t)
    \/ SaveTradingSignal(t)
    \/ ExecuteTradingSignal(t)
    \/ ExecuteTrade(t)
    \/ SaveTradeRecord(t)
    \/ UpdatePositionQuery(t)
    \/ UpdatePositionCommit(t)
    \/ SendTradingNotifications(t)
    \/ UpdateSystemStatus(t)
    \/ SendErrorNotification(t)
    \/ Sleep(t)

NextSized ==
    \/ RunAiTrading
    \/ ProcessKlineMessage
    \/ ProcessTickerMessage
    \/ \E t \in Loops : LoopStepSized(t)
    \/ \E t \in Loops : CycleRaise(t)

SpecSized == Init /\ [][NextSized]_vars

(***************************************************************************)
(* The executor under the two loop threads that /start-trading called      *)
(* twice leaves running: each thread's cycle is reduced to its call of     *)
(* execute_trading_signal with the snapshot and the signal it holds.       *)
(***************************************************************************)
MaxOverlapCalls == 3
OverlapMarketData ==
    {[symbol |-> "BTCUSDT", close_price |-> 100],
     [symbol |-> "BTCUSDT", close_price |-> 110]}
OverlapSignals(md) ==
    {generate_trading_signal(Advice(d, 900, 1, 4), md) : d \in {"BUY", "SELL"}}

\* Loop thread t enters execute_trading_signal(signal, market_data)
\* (ai_engine.py line 84); its call before, if any, has returned
EnterExecuteTradingSignal(t) ==
    /\ pc[t] \in {"idle", "notify"}
    /\ cycles < MaxOverlapCalls
    /\ cycles' = cycles + 1
    /\ \E md \in OverlapMarketData : \E signal \in OverlapSignals(md) :
          /\ market_data' = [market_data EXCEPT ![t] = md]
          /\ trading_signal' = [trading_signal EXCEPT ![t] = signal]
    /\ gate' = [gate EXCEPT ![t] = None]
    /\ trade_result' = [trade_result EXCEPT ![t] = None]
    /\ existing_position' = [existing_position EXCEPT ![t] = 0]
    /\ exchange_calls' = [exchange_calls EXCEPT ![t] = <<>>]
    /\ pc' = [pc EXCEPT ![t] = "execute"]
    /\ UNCHANGED <<fuse_vars, startup_vars, max_position_size, is_running, streaming,
                   data_cache, notified, delivered, db_vars, messages, stop_requested>>

\* One step of the call thread t is in
OverlapStep(t) ==
    \/ ExecuteTradingSignal(t)
    \/ ExecuteTrade(t)
    \/ SaveTradeRecord(t)
    \/ UpdatePositionQuery(t)
    \/ UpdatePositionCommit(t)

NextOverlap ==
    \/ \E t \in Loops : EnterExecuteTradingSignal(t)
    \/ \E t \in Loops : OverlapStep(t)

SpecOverlap == Init /\ [][NextOverlap]_vars

\* The trading-only runner from the start of its process
NextRunnerStartup ==
    \/ RunAiTradingInitDb
    \/ NextRunner

SpecRunnerStartup == InitStartup /\ [][NextRunnerStartup]_vars

(***************************************************************************)
(* Properties                                                              *)
(***************************************************************************)

\* C1: after any sequence of trading cycles at most one Position with
\* is_open = TRUE exists for each symbol.
C1_OneOpenPositionPerSymbol ==
    \A s \in Symbols :
        Cardinality({i \in 1 .. Len(positions) :
                        positions[i].symbol = s /\ positions[i].is_open}) <= 1

\* C2: for any sequence of start() and stop() calls at most one control loop
\* is alive and no two cycles execute concurrently.
C2_SingleControlLoop ==
    /\ Cardinality({t \in Loops : pc[t] \in Alive}) <= 1
    /\ Cardinality({t \in Loops : pc[t] \in InCycle}) <= 1

\* C3: an order is submitted to the exchange in a cycle only if that cycle's
\* signal passed every check of the risk gate (required fields, direction,
\* confidence >= 0.30, daily PnL >= -max_daily_loss, position_size <=
\* max_position_size x 10, risk_level <= 8, balance >= threshold); once a
\* signal is rejected, the cycle submits no order, appends no Trade and
\* changes no Position.
C3_OrderOnlyAfterGate ==
    /\ [](\A t \in Loops :
            exchange_calls[t] # <<>> =>
                /\ {"decision", "confidence", "position_size", "risk_level"}
                       \subseteq DOMAIN trading_signal[t]
                /\ trading_signal[t].decision \in {"BUY", "SELL", "HOLD"}
                /\ trading_signal[t].confidence >= 300
                /\ gate[t].daily_pnl >= -MaxDailyLoss
                /\ trading_signal[t].position_size <= max_position_size
                /\ trading_signal[t].risk_level <= 8
                /\ gate[t].usdt_balance >= MinBalanceThreshold)
    /\ [][\A t \in Loops :
            (gate[t] # None /\ gate[t].verdict # "accepted" /\ pc'[t] # pc[t]) =>
                /\ exchange_calls'[t] = <<>>
                /\ trades' = trades
                /\ positions' = positions]_vars

\* C3 witness: a SELL signal went through the gate and its order was submitted.
C3_Witness ==
    \E t \in Loops :
        /\ called(t) = <<"futures_change_leverage", "futures_create_order">>
        /\ trading_signal[t].decision = "SELL"
        /\ gate[t].verdict = "accepted"
        /\ gate[t].usdt_balance = 2000

\* C4: after stop() is called while the loop is Running, and start() is not
\* called again, the loop starts no further cycle and exits: the engine never
\* runs again.
C4_StoppedStaysStopped == stop_requested => ~is_running

\* C5: while the engine is running, a failure in any step of a cycle never
\* terminates the loop: a loop thread ends only at the loop condition with
\* is_running false, and after every cycle, failed or not, the next one starts.
C5_LoopSurvivesFailure ==
    /\ [][\A t \in Loops :
            (pc'[t] = "done" /\ pc[t] # "done") => (pc[t] = "loop" /\ ~is_running)]_vars
    /\ \A t \in Loops : \A n \in 1 .. MaxCycles - 1 :
            (cycles = n /\ pc[t] \in Alive /\ is_running) ~> (cycles = n + 1)

\* C5 witness: an exception left a cycle, the error was notified and the loop
\* thread is asleep, about to start the next cycle.
C5_Witness ==
    \E t \in Loops :
        /\ pc[t] = "sleep"
        /\ "error" \in notified[t]
        /\ is_running
        /\ cycles < MaxCycles

\* C6: whenever the fused (weighted-average) confidence is below 0.6 the fused
\* direction is HOLD, whatever the advisories' directions and the scores.
C6_LowConfidenceIsHold ==
    fuse_out # None =>
        LET g == fuse_in.gpt4
            c == fuse_in.claude
            p == fuse_in.perplexity
        IN  (\/ fuse_out.confidence < 600
             \/ /\ g # FAILED /\ c # FAILED /\ p # FAILED
                /\ g.confidence * 5 + c.confidence * 3 + p.confidence * 2 < 6000)
            => fuse_out.decision = "HOLD"

\* C6 witness: BUY leads the scores by far, the fused confidence is 0.56, and
\* the fused direction is HOLD.
C6_Witness ==
    /\ fuse_out # None
    /\ fuse_in.gpt4 = Advice("BUY", 1000, 7, 4)
    /\ fuse_out.confidence = 560
    /\ fuse_out.decision_scores["BUY"] - fuse_out.decision_scores["HOLD"] >= 1000
    /\ fuse_out.decision_scores["BUY"] - fuse_out.decision_scores["SELL"] >= 1000
    /\ fuse_out.decision = "HOLD"

\* C7: whenever the highest direction score exceeds the second highest by less
\* than 0.1 the fused direction is HOLD.
C7_NearTieIsHold ==
    fuse_out # None =>
        \A d \in Decisions : \A e \in Decisions \ {d} :
            (/\ \A x \in Decisions : fuse_out.decision_scores[x] <= fuse_out.decision_scores[d]
             /\ \A x \in Decisions \ {d} :
                    fuse_out.decision_scores[x] <= fuse_out.decision_scores[e]
             /\ fuse_out.decision_scores[d] - fuse_out.decision_scores[e] < 1000)
            => fuse_out.decision = "HOLD"

\* C7 witness: confidence 0.82, SELL leads BUY by 0.02 only, the direction is HOLD.
C7_Witness ==
    /\ fuse_out # None
    /\ fuse_out.confidence = 820
    /\ fuse_out.decision_scores["SELL"] = 4200
    /\ fuse_out.decision_scores["BUY"] = 4000
    /\ fuse_out.decision = "HOLD"

C10_HoldAlwaysAccepted ==
    \A t \in Loops :
        (gate[t] # None /\ trading_signal[t].decision = "HOLD")
            => gate[t].verdict = "accepted"

\* C10 amended: a HOLD signal passes through the same checks as BUY and SELL
\* and is rejected when one fails; a HOLD that passes them is a no-op: no
\* leverage call, no order, the result is success with action HOLD, and the
\* position update is not reached.
C10_HoldIsGatedThenNoOp ==
    \A t \in Loops :
        (gate[t] # None /\ trading_signal[t].decision = "HOLD") =>
            /\ gate[t].verdict = "accepted" <=>
                   /\ trading_signal[t].confidence >= 300
                   /\ gate[t].daily_pnl >= -MaxDailyLoss
                   /\ trading_signal[t].position_size <= max_position_size
                   /\ trading_signal[t].risk_level <= 8
                   /\ gate[t].usdt_balance >= MinBalanceThreshold
            /\ exchange_calls[t] = <<>>
            /\ pc[t] # "commit"
            /\ (gate[t].verdict = "accepted" /\ trade_result[t] # None) =>
                   trade_result[t] = [success |-> TRUE, action |-> "HOLD"]

\* C10 witness: a HOLD signal was accepted and executed as a no-op.
C10_Witness ==
    \E t \in Loops :
        /\ gate[t] # None
        /\ trading_signal[t].decision = "HOLD"
        /\ gate[t].verdict = "accepted"
        /\ trade_result[t] = [success |-> TRUE, action |-> "HOLD"]
        /\ exchange_calls[t] = <<>>
        /\ pc[t] = "save_trade"


\* C11 as stated: a signal with confidence 0.25 is rejected by the risk gate
\* and the reason given for the rejection is its low confidence, whatever its
\* other fields are.
C11_RejectedLowConfidence ==
    \A t \in Loops :
        (/\ gate[t] # None
         /\ "confidence" \in DOMAIN trading_signal[t]
         /\ trading_signal[t].confidence = 250) =>
            /\ gate[t].verdict = "validation"
            /\ gate[t].logged = "low_confidence"

\* C11 amended: a signal with confidence 0.25 always fails validation: no
\* lookup and no exchange call is made and the result is the one generic
\* validation failure, the same as for a missing field or an invalid
\* direction.  The cause is only logged, and the logged cause is the low
\* confidence only when all four required fields are present and the
\* direction is BUY, SELL or HOLD.
C11_LowConfidenceFailsValidation ==
    \A t \in Loops :
        (/\ gate[t] # None
         /\ "confidence" \in DOMAIN trading_signal[t]
         /\ trading_signal[t].confidence = 250) =>
            /\ gate[t] \in {[verdict |-> "validation", logged |-> "low_confidence"],
                            [verdict |-> "validation", logged |-> "invalid_decision"],
                            [verdict |-> "validation", logged |-> "missing_field"]}
            /\ trade_result[t] = [success |-> FALSE, error |-> "validation"]
            /\ exchange_calls[t] = <<>>
            /\ gate[t].logged = "low_confidence" <=>
                   /\ {"decision", "confidence", "position_size", "risk_level"}
                          \subseteq DOMAIN trading_signal[t]
                   /\ trading_signal[t].decision \in {"BUY", "SELL", "HOLD"}

\* C11 witness: a BUY signal, flawless but for its confidence 0.25, was
\* rejected by validation.
C11_Witness ==
    /\ gate[1] = [verdict |-> "validation", logged |-> "low_confidence"]
    /\ trading_signal[1].decision = "BUY"
    /\ trading_signal[1].confidence = 250
    /\ trading_signal[1].position_size = 1
    /\ trading_signal[1].risk_level = 4
    /\ trade_result[1] = [success |-> FALSE, error |-> "validation"]
    /\ pc[1] = "notify"


\* C12: the risk gate is a total function.  For any signal (malformed ones
\* included) and any account state (a failed account lookup or daily-PnL
\* lookup included) the gate ends in exactly one outcome: the signal is
\* accepted and goes on to execution, or the call returns one rejection that
\* carries one reason; no exception leaves the call, and every call that was
\* entered gets its outcome.
C12_GateIsTotal ==
    /\ [](\A t \in Loops :
            gate[t] # None =>
                /\ gate[t].verdict \in {"accepted", "validation", "risk", "balance"}
                /\ gate[t].verdict = "accepted" =>
                       /\ pc[t] \in {"trade", "save_trade", "position", "commit", "notify"}
                       /\ pc[t] = "trade" <=> trade_result[t] = None
                       /\ trade_result[t] # None => trade_result[t].success \in BOOLEAN
                /\ gate[t].verdict # "accepted" =>
                       /\ pc[t] = "notify"
                       /\ trade_result[t] = [success |-> FALSE, error |-> gate[t].verdict])
    /\ [][\A t \in Loops :
            (pc[t] = "execute" /\ pc'[t] # "execute") =>
                /\ pc'[t] \in {"trade", "notify"}
                /\ gate'[t] # None]_vars
    /\ \A t \in Loops : (pc[t] = "execute") ~> (gate[t] # None)

\* C12 witness: both lookups failed for a well-formed signal; the daily PnL
\* counted as 0, the balance as 0, and the call returned the rejection for
\* the balance.
C12_Witness ==
    /\ gate[1] = [verdict |-> "balance", daily_pnl |-> 0, usdt_balance |-> 0]
    /\ trade_result[1] = [success |-> FALSE, error |-> "balance"]
    /\ pc[1] = "notify"


\* C13: whenever the risk gate rejects the cycle's signal or the execution
\* fails, a notification of that outcome has been dispatched by the end of the
\* cycle (the HEALTHY status report, sent in every cycle, is not one).
C13_FailureIsNotified ==
    \A t \in Loops :
        (pc[t] = "sleep" /\ trade_result[t] # None /\ ~trade_result[t].success) =>
            notified[t] \cap {"trade", "portfolio", "error"} # {}


\* C14: when a BUY order was accepted and filled and the symbol has no open
\* position, _update_position opens exactly one new Position for the symbol:
\* LONG, is_open, entry price = executed price, the order's quantity and
\* leverage.
C14_BuyOpensPosition ==
    [][\A t \in Loops :
          (/\ pc[t] = "commit" /\ pc'[t] = "notify"
           /\ trade_result[t].action = "BUY"
           /\ existing_position[t] = 0) =>
              positions' = Append(positions,
                                  [symbol |-> market_data[t].symbol,
                                   position_type |-> "PositionType.LONG",
                                   quantity |-> trade_result[t].quantity,
                                   entry_price |-> trade_result[t].price,
                                   leverage |-> trade_result[t].leverage,
                                   is_open |-> TRUE])]_vars


\* C15: when a SELL order was accepted and filled and the symbol has an open
\* LONG position, the row that _update_position writes closes that position
\* (is_open false) with realized_pnl = (exit price - entry price) x quantity;
\* entry 100, exit 110, quantity 2 give 20 (20000 in thousandths).
C15_SellClosesLongWithPnl ==
    [][\A t \in Loops :
          (/\ pc[t] = "commit" /\ pc'[t] = "notify"
           /\ trade_result[t].action = "SELL"
           /\ existing_position[t] # 0
           /\ positions' # positions) =>
              LET before == positions[existing_position[t]]
                  after == positions'[existing_position[t]]
              IN  /\ ~after.is_open
                  /\ after.realized_pnl
                         = (trade_result[t].price - before.entry_price) * before.quantity]_vars


\* C16: for every accepted and executed signal other than a BUY with no open
\* position and a SELL with an open position - a SELL with no open position,
\* a BUY with a position already open, a HOLD - no step of the call creates,
\* closes or modifies a Position, and _save_trade_record appends one Trade.
C16_OtherSignalsOnlyRecordTrade ==
    [][\A t \in Loops :
          (/\ gate[t] # None /\ gate[t].verdict = "accepted"
           /\ trade_result[t] # None /\ trade_result[t].success
           /\ pc'[t] # pc[t]
           /\ LET open == query_open_position(market_data[t].symbol)
              IN  \/ trade_result[t].action = "HOLD"
                  \/ trade_result[t].action = "SELL" /\ open = 0
                  \/ trade_result[t].action = "BUY" /\ open # 0) =>
              /\ positions' = positions
              /\ pc[t] = "save_trade" =>
                     /\ Len(trades') = Len(trades) + 1
                     /\ SubSeq(trades', 1, Len(trades)) = trades
                     /\ trades'[Len(trades')].symbol = market_data[t].symbol
                     /\ trades'[Len(trades')].side = trade_result[t].action]_vars


\* C17: when the exchange refuses the order or the order call fails, the
\* failure is returned in the result's error field, _save_trade_record
\* appends exactly one Trade, with status REJECTED, and no step of the call
\* changes a Position.
C17_ExchangeErrorRecorded ==
    /\ [](\A t \in Loops :
            (exchange_calls[t] # <<>> /\ trade_result[t] # None
             /\ ~trade_result[t].success) => "error" \in DOMAIN trade_result[t])
    /\ [][\A t \in Loops :
            (/\ exchange_calls[t] # <<>> /\ trade_result[t] # None
             /\ ~trade_result[t].success
             /\ pc'[t] # pc[t]) =>
                /\ positions' = positions
                /\ pc[t] = "save_trade" =>
                       /\ Len(trades') = Len(trades) + 1
                       /\ SubSeq(trades', 1, Len(trades)) = trades
                       /\ trades'[Len(trades')].status = "REJECTED"]_vars


\* C18: in a cycle whose market snapshot is unavailable, the one acquisition
\* attempt is followed directly by the sleep and the sleep by the next loop
\* check: the cycle invokes no advisory and builds no signal, persists no
\* signal record, makes no exchange call, appends no Trade, changes no
\* Position and sends no notification.
C18_NoSnapshotSkipsCycle ==
    /\ [](\A t \in Loops :
            (pc[t] = "sleep" /\ market_data[t] = None /\ "error" \notin notified[t]) =>
                /\ trading_signal[t] = None
                /\ gate[t] = None
                /\ trade_result[t] = None
                /\ exchange_calls[t] = <<>>
                /\ notified[t] = {})
    /\ [][\A t \in Loops :
            (/\ pc'[t] # pc[t]
             /\ \/ pc[t] = "collect" /\ collect_market_data = None
                \/ pc[t] = "sleep" /\ market_data[t] = None /\ "error" \notin notified[t]) =>
                /\ pc[t] = "collect" => pc'[t] \in {"sleep", "error"}
                /\ pc[t] = "sleep" => pc'[t] = "loop"
                /\ UNCHANGED <<trading_signals, trades, positions, trading_signal,
                               exchange_calls, notified>>]_vars

\* C18 witness: the first cycle found the cache empty and the loop is asleep;
\* nothing was recorded.
C18_Witness ==
    /\ pc[1] = "sleep"
    /\ cycles = 1
    /\ market_data[1] = None
    /\ data_cache = [s \in Symbols |-> None]
    /\ notified[1] = {}
    /\ trading_signals = 0
    /\ trades = <<>>
    /\ positions = <<>>


\* C19: quantity sizing is monotonic in the balance.  For the same signal,
\* price and limits, the quantity computed for the larger available balance is
\* never smaller than the one computed for the smaller balance (a failed
\* account lookup counting as balance 0).
C19_QuantityMonotonicInBalance ==
    fuse_out # None => fuse_out.low <= fuse_out.high

\* C19 witness: position_size 3 at price 110 under the limit 0.5: balance 101
\* gives 0.275, balance 2000 gives 5.455.
C19_Witness ==
    /\ fuse_out # None
    /\ max_position_size = 5
    /\ fuse_in.signal.position_size = 3
    /\ fuse_in.market_data.close_price = 110
    /\ fuse_in.low = [value |-> 101]
    /\ fuse_in.high = [value |-> 2000]
    /\ fuse_out.low = 275
    /\ fuse_out.high = 5455


\* C20 as stated: fusing {BUY, 0.8, size 7, risk 4} and {BUY, 0.7, size 6,
\* risk 5} with the sentiment {POSITIVE, 0.6, impact MEDIUM} under the weights
\* 0.5 / 0.3 / 0.2 yields position size 7 and risk level 5.
C20_FusedSize7Risk5 ==
    (/\ fuse_out # None
     /\ fuse_in.gpt4 = Advice("BUY", 800, 7, 4)
     /\ fuse_in.claude = Advice("BUY", 700, 6, 5)
     /\ fuse_in.perplexity = [sentiment |-> "POSITIVE", confidence |-> 600,
                              market_impact |-> "MEDIUM"]) =>
        /\ fuse_out.position_size = 7
        /\ fuse_out.risk_level = 5

\* C20 amended: the same fusion yields position size 6 and risk level 4.  The
\* sentiment advisory takes part in both averages with its weight 0.2: with
\* the fixed size 5, (7 x 0.5 + 6 x 0.3 + 5 x 0.2) / 1.0 = 6.3, and with the
\* news risk 3 x 1.0 = 3, (4 x 0.5 + 5 x 0.3 + 3 x 0.2) / 1.0 = 4.1; the
\* direction is BUY and the confidence 0.73.
C20_FusedSize6Risk4 ==
    (/\ fuse_out # None
     /\ fuse_in.gpt4 = Advice("BUY", 800, 7, 4)
     /\ fuse_in.claude = Advice("BUY", 700, 6, 5)
     /\ fuse_in.perplexity = [sentiment |-> "POSITIVE", confidence |-> 600,
                              market_impact |-> "MEDIUM"]) =>
        /\ fuse_out.position_size = 6
        /\ fuse_out.risk_level = 4
        /\ fuse_out.decision = "BUY"
        /\ fuse_out.confidence = 730

\* C20 witness: the three advisories of the scenario have been fused.
C20_Witness ==
    /\ fuse_out # None
    /\ fuse_in.gpt4 = Advice("BUY", 800, 7, 4)
    /\ fuse_in.claude = Advice("BUY", 700, 6, 5)
    /\ fuse_in.perplexity = [sentiment |-> "POSITIVE", confidence |-> 600,
                             market_impact |-> "MEDIUM"]
    /\ fuse_out.decision_scores = [d \in Decisions |-> IF d = "BUY" THEN 7300 ELSE 0]
    /\ fuse_out.position_size = 6


\* C21: stop() is idempotent and does not disturb a cycle in flight.  Every
\* call of stop leaves the engine stopped (is_running false, streams closed),
\* a call that finds the engine already stopped changes nothing at all, and no
\* call changes a Position, a Trade, a signal record, or the position and the
\* locals of a loop thread that is inside a cycle.
C21_StopIsIdempotent ==
    /\ [][StopTrading => (~is_running' /\ ~streaming')]_vars
    /\ [][(StopTrading /\ ~is_running /\ ~streaming) => UNCHANGED vars]_vars
    /\ [][StopTrading =>
             UNCHANGED <<trading_signals, trades, positions, pc, market_data,
                         trading_signal, gate, trade_result, existing_position,
                         exchange_calls, notified>>]_vars

\* C21 witness: stop came while the loop was executing an accepted order; the
\* cycle is still in flight with its result, and the engine is stopped.
C21_Witness ==
    /\ stop_requested
    /\ ~is_running
    /\ ~streaming
    /\ pc[1] = "save_trade"
    /\ trade_result[1] # None
    /\ trade_result[1].success
    /\ exchange_calls[1] # <<>>


\* C22: whenever an exception is caught at the cycle boundary, a
\* system-health alert is delivered to the notification sink for that cycle:
\* at the end of a cycle whose exception handler ran, the error alert is among
\* the notifications the sink received.
C22_ErrorAlertDelivered ==
    \A t \in Loops :
        (pc[t] = "sleep" /\ "error" \in notified[t]) => "error" \in delivered[t]


\* C23: the gate applies its checks in the order required fields, direction,
\* confidence, daily loss, position size, risk level, balance, and the first
\* failing check decides: the rejection carries the reason of the earliest
\* failing check whatever the later checks would have said, and the lookups
\* of the later checks (the daily PnL after a failed validation, the account
\* after a failed validation or risk check) are not made.
C23_FirstFailingCheckWins ==
    \A t \in Loops :
        gate[t] # None =>
            LET signal == trading_signal[t]
                g == gate[t]
                has_fields == required_fields \subseteq DOMAIN signal
                rejected_by(verdict, logged) ==
                    /\ g.verdict = verdict
                    /\ g.logged = logged
                    /\ trade_result[t] = failure(verdict)
            IN  /\ ~has_fields =>
                       /\ rejected_by("validation", "missing_field")
                       /\ DOMAIN g = {"verdict", "logged"}
                /\ (has_fields /\ signal.decision \notin {"BUY", "SELL", "HOLD"}) =>
                       /\ rejected_by("validation", "invalid_decision")
                       /\ DOMAIN g = {"verdict", "logged"}
                /\ (/\ has_fields /\ signal.decision \in {"BUY", "SELL", "HOLD"}
                    /\ signal.confidence < 300) =>
                       /\ rejected_by("validation", "low_confidence")
                       /\ DOMAIN g = {"verdict", "logged"}
                /\ (/\ has_fields /\ signal.decision \in {"BUY", "SELL", "HOLD"}
                    /\ signal.confidence >= 300) =>
                       /\ "daily_pnl" \in DOMAIN g
                       /\ g.daily_pnl < -MaxDailyLoss =>
                              /\ rejected_by("risk", "daily_loss")
                              /\ "usdt_balance" \notin DOMAIN g
                       /\ (/\ g.daily_pnl >= -MaxDailyLoss
                           /\ signal.position_size > max_position_size) =>
                              /\ rejected_by("risk", "position_size")
                              /\ "usdt_balance" \notin DOMAIN g
                       /\ (/\ g.daily_pnl >= -MaxDailyLoss
                           /\ signal.position_size <= max_position_size
                           /\ signal.risk_level > 8) =>
                              /\ rejected_by("risk", "risk_level")
                              /\ "usdt_balance" \notin DOMAIN g
                       /\ (/\ g.daily_pnl >= -MaxDailyLoss
                           /\ signal.position_size <= max_position_size
                           /\ signal.risk_level <= 8) =>
                              /\ "usdt_balance" \in DOMAIN g
                              /\ g.usdt_balance < MinBalanceThreshold =>
                                     /\ g.verdict = "balance"
                                     /\ trade_result[t] = failure("balance")
                              /\ g.usdt_balance >= MinBalanceThreshold =>
                                     g.verdict = "accepted"

\* C23 witness: a signal that passes validation but breaks the daily-loss
\* limit, the size limit and the risk-level ceiling at once was rejected for
\* the daily loss, and the account was not looked up.
C23_Witness ==
    /\ trading_signal[1] # None
    /\ required_fields \subseteq DOMAIN trading_signal[1]
    /\ trading_signal[1].confidence >= 300
    /\ trading_signal[1].position_size > max_position_size
    /\ trading_signal[1].risk_level > 8
    /\ gate[1] = [verdict |-> "risk", daily_pnl |-> -500, logged |-> "daily_loss"]
    /\ trade_result[1] = failure("risk")


\* C24: in every cycle that obtained a market snapshot exactly one signal
\* record is appended to the store, before the risk gate runs and whatever
\* the gate and the execution then do: the step that leaves
\* _save_trading_signal for the executor appends one record while the gate has
\* not run, and no other step of a cycle appends one.
C24_OneSignalRecordPerCycle ==
    /\ [][\A t \in Loops :
            (pc[t] = "save_signal" /\ pc'[t] = "execute") =>
                /\ market_data[t] # None
                /\ gate[t] = None
                /\ trading_signals' = trading_signals + 1]_vars
    /\ [][trading_signals' # trading_signals =>
            \E t \in Loops : pc[t] = "save_signal" /\ pc'[t] = "execute"]_vars


\* C25: the computed order quantity is never zero or negative.  For every
\* balance, price and position_size it is at least the exchange minimum order
\* size (0.001), and it equals that minimum when the current price is <= 0 or
\* the account lookup failed.
C25_QuantityAtLeastMinimum ==
    fuse_out # None =>
        /\ fuse_out.low >= MinOrderSize
        /\ fuse_out.high >= MinOrderSize
        /\ fuse_in.market_data.close_price <= 0 =>
               (fuse_out.low = MinOrderSize /\ fuse_out.high = MinOrderSize)
        /\ fuse_in.low = FAILED => fuse_out.low = MinOrderSize
        /\ fuse_in.high = FAILED => fuse_out.high = MinOrderSize

\* C25 witness: at price 100 under the limit 0.5 and position_size 3 the
\* failed account lookup gives the minimum 0.001 while the balance 2000 gives
\* 6.0.
C25_Witness ==
    /\ fuse_out # None
    /\ max_position_size = 5
    /\ fuse_in.signal.position_size = 3
    /\ fuse_in.market_data.close_price = 100
    /\ fuse_in.low = FAILED
    /\ fuse_in.high = [value |-> 2000]
    /\ fuse_out.low = MinOrderSize
    /\ fuse_out.high = 6000


\* C26: every Position written to the ledger has quantity > 0 and
\* entry_price > 0, whatever the interleaving of kline and ticker messages
\* with the trading cycles.
C26_PositionsHavePositiveEntry ==
    \A i \in DOMAIN positions :
        /\ positions[i].quantity > 0
        /\ positions[i].entry_price > 0


C28_FailedInitAbortsStartup ==
    database = "failed" =>
        /\ ~ai_engine
        /\ ~is_running
        /\ cycles = 0
        /\ \A t \in Loops : pc[t] = "idle"


\* C29 as stated: under the default configuration (max_position_size 0.1)
\* every fused position_size is at least 2 and exceeds the gate limit 1, and
\* every fused signal, HOLD included, is rejected by the position-size check;
\* no order is submitted and no Position is opened.
C29_RejectedByPositionSizeCheck ==
    max_position_size = DefaultMaxPositionSize =>
        /\ \A t \in Loops :
               /\ trading_signal[t] # None => trading_signal[t].position_size >= 2
               /\ gate[t] # None =>
                      /\ gate[t].verdict = "risk"
                      /\ gate[t].logged = "position_size"
               /\ exchange_calls[t] = <<>>
        /\ positions = <<>>

\* C29 amended: under the default configuration every fused position_size is
\* at least 2 and exceeds the gate limit 1, so no fused signal, HOLD included,
\* passes the gate: it is rejected by the position-size check unless an
\* earlier check (confidence below 0.30, daily loss beyond the limit) has
\* rejected it already; no order is submitted, no Trade is recorded and no
\* Position is opened.
C29_DefaultLimitRejectsEverySignal ==
    max_position_size = DefaultMaxPositionSize =>
        /\ \A t \in Loops :
               /\ trading_signal[t] # None =>
                      /\ trading_signal[t].position_size >= 2
                      /\ trading_signal[t].position_size > max_position_size
               /\ gate[t] # None =>
                      \/ /\ gate[t].verdict = "validation"
                         /\ gate[t].logged = "low_confidence"
                         /\ trading_signal[t].confidence < 300
                      \/ /\ gate[t].verdict = "risk"
                         /\ gate[t].logged = "daily_loss"
                         /\ gate[t].daily_pnl < -MaxDailyLoss
                      \/ /\ gate[t].verdict = "risk"
                         /\ gate[t].logged = "position_size"
                         /\ trading_signal[t].confidence >= 300
                         /\ gate[t].daily_pnl >= -MaxDailyLoss
               /\ exchange_calls[t] = <<>>
        /\ trades = <<>>
        /\ positions = <<>>

\* C29 witness: both generators answered position_size 1, the fused BUY has
\* position_size 2 and was rejected by the position-size check.
C29_Witness ==
    /\ max_position_size = DefaultMaxPositionSize
    /\ trading_signal[1] # None
    /\ trading_signal[1].decision = "BUY"
    /\ trading_signal[1].position_size = 2
    /\ gate[1] = [verdict |-> "risk", daily_pnl |-> 0, logged |-> "position_size"]
    /\ trade_result[1] = failure("risk")
    /\ pc[1] = "sleep"


\* C30: once a Position is closed no later cycle changes it: is_open never
\* returns to true and its realized_pnl, quantity and entry_price stay fixed;
\* a later filled BUY for the same symbol creates a new Position record
\* instead of reopening the closed one.
C30_ClosedPositionIsFinal ==
    /\ [][\A i \in DOMAIN positions :
            ~positions[i].is_open =>
                /\ i \in DOMAIN positions'
                /\ positions'[i] = positions[i]]_vars
    /\ [][\A t \in Loops :
            (/\ pc[t] = "commit" /\ pc'[t] = "notify"
             /\ trade_result[t].action = "BUY"
             /\ existing_position[t] = 0
             /\ positions' # positions) =>
                /\ Len(positions') = Len(positions) + 1
                /\ positions'[Len(positions')].is_open
                /\ \A i \in DOMAIN positions : positions'[i] = positions[i]]_vars

====
